---- MODULE Spec2Model ----
(***************************************************************************)
(* Model of create_northwind_tables.py: the row repair done by clean_csv   *)
(* and the sequential load of the sources of csv_files into DuckDB.        *)
(* Text is modelled as sequences of one-character strings.                 *)
(***************************************************************************)
EXTENDS Integers, Sequences, FiniteSets, TLC

VARIABLES
    text_rows,      \* clean_csv: the rows csv.reader yields for response.text
    header,         \* clean_csv: header
    nread,          \* clean_csv: number of data rows the for loop has consumed
    cleaned_rows,   \* clean_csv: cleaned_rows
    written,        \* clean_csv: the rows handed to writer.writerows
    cpc,            \* clean_csv: position ("start", "rows", "written", "failed")
    pc,             \* the script: position
    db_path,        \* the script: db_path
    con,            \* the script: the database con is connected to ("none" before)
    connect_failed, \* whether the connect of line 19 raised
    preexisting,    \* the nw_ tables the database held when it was opened
    db_tables,      \* the nw_ tables of the connected database
    pos,              \* index in csv_files of the source being processed
    csv_file,       \* the script: csv_file
    table_name,     \* the script: table_name
    attempted,      \* the sources create_table_from_csv was called for, in order
    outcome,        \* per source: how its create_table_from_csv call ended
    temp_files      \* the sources whose temporary file exists on disk

cleanVars == <<text_rows, header, nread, cleaned_rows, written, cpc>>

nameVars == <<csv_file, table_name>>

runVars == <<pc, db_path, con, connect_failed, preexisting, db_tables, pos,
             attempted, outcome, temp_files>>

vars == <<cleanVars, nameVars, runVars>>

----------------------------------------------------------------------------
(* Bounds of the inputs.                                                   *)

MaxCols == 2        \* longest header
MaxFieldLen == 2    \* longest field of the single-row inputs
MaxRows == 2        \* most data rows of the multi-row inputs
MaxNameLen == 4     \* longest generated file name
NumSources == 4     \* the run processes the first NumSources entries of csv_files
MaxPreexisting == 1 \* most nw_ tables a database file holds when it is opened

MaxRowLen == MaxCols + 1

Comma == ","
Alphabet == {"a", Comma}

\* All sequences over S of length at most n.
SeqsUpTo(S, n) == UNION {[1..k -> S] : k \in 0..n}

\* The parts of the state a specification leaves alone.
CleanIdle ==
    /\ text_rows = <<>>
    /\ header = <<>>
    /\ nread = 0
    /\ cleaned_rows = <<>>
    /\ written = <<>>
    /\ cpc = "idle"

NameIdle ==
    /\ csv_file = <<>>
    /\ table_name = <<>>

RunIdle ==
    /\ pc = "idle"
    /\ db_path = ":memory:"
    /\ con = "none"
    /\ connect_failed = FALSE
    /\ preexisting = {}
    /\ db_tables = {}
    /\ pos = 0
    /\ attempted = <<>>
    /\ outcome = [s \in 1..NumSources |-> "none"]
    /\ temp_files = {}

----------------------------------------------------------------------------
(* Python string and list primitives used by clean_csv.                    *)

\* s.replace(old, new), old one character, new a string
RECURSIVE Replace(_, _, _)
Replace(s, old, new) ==
    IF s = <<>> THEN <<>>
    ELSE (IF Head(s) = old THEN new ELSE <<Head(s)>>) \o Replace(Tail(s), old, new)

\* sep.join(fields)
RECURSIVE Join(_, _)
Join(sep, fields) ==
    IF fields = <<>> THEN <<>>
    ELSE IF Len(fields) = 1 THEN fields[1]
    ELSE fields[1] \o sep \o Join(sep, Tail(fields))

\* A Python slice bound: negative counts from the end, then clamped to 0..len.
SliceIndex(n, len) ==
    LET m == IF n < 0 THEN n + len ELSE n
    IN  IF m < 0 THEN 0 ELSE IF m > len THEN len ELSE m

\* row[:stop]
SliceTo(row, stop) == SubSeq(row, 1, SliceIndex(stop, Len(row)))

\* row[start:]
SliceFrom(row, start) == SubSeq(row, SliceIndex(start, Len(row)) + 1, Len(row))

----------------------------------------------------------------------------
(* clean_csv                                                               *)

replace_char == <<" ">>

\* The merge branch joining one field too few into the last field.
CleanLongRowOffByOne(row, expected_cols, rc) ==
    Append([k \in 1..Len(SliceTo(row, expected_cols)) |->
                Replace(row[k], Comma, rc)],
           Join(rc, SliceFrom(row, expected_cols)))

\* lines 65-66: the elif branch, len(row) > expected_cols
CleanLongRow(row, expected_cols, rc) ==
    Append([k \in 1..Len(SliceTo(row, expected_cols - 1)) |->
                Replace(row[k], Comma, rc)],
           Join(rc, SliceFrom(row, expected_cols - 1)))

\* The pass-through branch padding a short row with empty fields.
CleanSameLengthPadded(row, expected_cols, rc) ==
    [k \in 1..expected_cols |->
        IF k <= Len(row) THEN Replace(row[k], Comma, rc) ELSE <<>>]

\* lines 62 and 70: the if and else branches, len(row) <= expected_cols
CleanSameLength(row, expected_cols, rc) ==
    [k \in 1..Len(row) |-> Replace(row[k], Comma, rc)]

\* lines 61-71: the body of the for loop for one row
CleanRow(row, expected_cols, rc) ==
    IF Len(row) = expected_cols THEN CleanSameLength(row, expected_cols, rc)
    ELSE IF Len(row) > expected_cols THEN CleanLongRow(row, expected_cols, rc)
    ELSE CleanSameLength(row, expected_cols, rc)

expected_cols == Len(header)

\* The rows the loop has consumed so far.
raw_rows == SubSeq(text_rows, 2, nread + 1)

\* Inputs. A response with no line at all; or a header, of which at most one
\* name holds a comma, followed either by one data row of arbitrary fields or
\* by up to MaxRows data rows whose fields are all "a,"; rows are of every
\* length from 0 to MaxRowLen.
Fields == SeqsUpTo(Alphabet, MaxFieldLen)

Headers ==
    {[k \in 1..n |-> IF k = c THEN <<"h", Comma>> ELSE <<"h">>] :
        n \in 0..MaxCols, c \in 0..MaxCols}

ShapeRows == {[k \in 1..m |-> <<"a", Comma>>] : m \in 0..MaxRowLen}

EmptyResponse(t) == t = <<>>

ContentResponse(t) ==
    \E h \in Headers : \E m \in 0..MaxRowLen : \E r \in [1..m -> Fields] :
        t = <<h, r>>

LoopResponse(t) ==
    \E h \in Headers : \E m \in 0..MaxRows : \E d \in [1..m -> ShapeRows] :
        t = <<h>> \o d

InitClean ==
    /\ \/ EmptyResponse(text_rows)
       \/ ContentResponse(text_rows)
       \/ LoopResponse(text_rows)
    /\ header = <<>>
    /\ nread = 0
    /\ cleaned_rows = <<>>
    /\ written = <<>>
    /\ cpc = "start"
    /\ NameIdle
    /\ RunIdle

\* lines 56-58: header = next(csv_reader); cleaned_rows = [header]
ReadHeader ==
    /\ cpc = "start"
    /\ text_rows # <<>>
    /\ header' = text_rows[1]
    /\ cleaned_rows' = <<text_rows[1]>>
    /\ cpc' = "rows"
    /\ UNCHANGED <<text_rows, nread, written, nameVars, runVars>>

\* line 56: next() on an exhausted reader raises StopIteration
HeaderMissing ==
    /\ cpc = "start"
    /\ text_rows = <<>>
    /\ cpc' = "failed"
    /\ UNCHANGED <<text_rows, header, nread, cleaned_rows, written, nameVars, runVars>>

\* The loop dropping a row shorter than the header instead of passing it on.
CleanNextRowSkipShort ==
    /\ cpc = "rows"
    /\ nread + 1 < Len(text_rows)
    /\ cleaned_rows' =
          IF Len(text_rows[nread + 2]) < expected_cols THEN cleaned_rows
          ELSE Append(cleaned_rows,
                      CleanRow(text_rows[nread + 2], expected_cols, replace_char))
    /\ nread' = nread + 1
    /\ UNCHANGED <<text_rows, header, written, cpc, nameVars, runVars>>

\* lines 60-71: one iteration of the for loop
CleanNextRow ==
    /\ cpc = "rows"
    /\ nread + 1 < Len(text_rows)
    /\ cleaned_rows' =
          Append(cleaned_rows, CleanRow(text_rows[nread + 2], expected_cols, replace_char))
    /\ nread' = nread + 1
    /\ UNCHANGED <<text_rows, header, written, cpc, nameVars, runVars>>

\* lines 73-78: the reader is exhausted; write the rows out
WriteCleaned ==
    /\ cpc = "rows"
    /\ nread + 1 = Len(text_rows)
    /\ written' = cleaned_rows
    /\ cpc' = "written"
    /\ UNCHANGED <<text_rows, header, nread, cleaned_rows, nameVars, runVars>>

NextClean == ReadHeader \/ HeaderMissing \/ CleanNextRow \/ WriteCleaned

SpecClean == InitClean /\ [][NextClean]_vars

----------------------------------------------------------------------------
(* The table name of a source: lines 107-108.                              *)

csv_files ==
    << <<"c", "a", "t", "e", "g", "o", "r", "i", "e", "s", ".", "c", "s", "v">>,
       <<"c", "u", "s", "t", "o", "m", "e", "r", "s", ".", "c", "s", "v">>,
       <<"e", "m", "p", "l", "o", "y", "e", "e", "s", ".", "c", "s", "v">>,
       <<"o", "r", "d", "e", "r", "-", "d", "e", "t", "a", "i", "l", "s", ".", "c", "s", "v">>,
       <<"o", "r", "d", "e", "r", "s", ".", "c", "s", "v">>,
       <<"p", "r", "o", "d", "u", "c", "t", "s", ".", "c", "s", "v">>,
       <<"s", "h", "i", "p", "p", "e", "r", "s", ".", "c", "s", "v">>,
       <<"s", "u", "p", "p", "l", "i", "e", "r", "s", ".", "c", "s", "v">> >>

\* p.rfind(c), counted from 1; 0 when c does not occur
RFind(p, c) ==
    LET at == {k \in 1..Len(p) : p[k] = c}
    IN  IF at = {} THEN 0 ELSE CHOOSE k \in at : \A m \in at : m <= k

\* os.path.splitext(p)[0] on a POSIX path: the extension starts at the last
\* dot of the last path component, leading dots of the component excepted.
SplitExtRoot(p) ==
    LET sepIndex == RFind(p, "/")
        dotIndex == RFind(p, ".")
    IN  IF /\ dotIndex > sepIndex
           /\ \E k \in (sepIndex + 1)..(dotIndex - 1) : p[k] # "."
        THEN SubSeq(p, 1, dotIndex - 1)
        ELSE p

\* The derivation replacing the first hyphen only.
TableNameFirstHyphenOnly(file) ==
    LET root == SplitExtRoot(file)
        first == CHOOSE k \in 1..(Len(root) + 1) :
                    /\ k <= Len(root) => root[k] = "-"
                    /\ \A m \in 1..(k - 1) : root[m] # "-"
    IN  [k \in 1..Len(root) |-> IF k = first THEN "_" ELSE root[k]]

\* lines 107-108: splitext(csv_file)[0].replace('-', '_')
TableName(file) == Replace(SplitExtRoot(file), "-", <<"_">>)

\* line 95: the table the statement creates, "nw_{table_name}"
TableId(name) == <<"n", "w", "_">> \o name

NameAlphabet == {"a", "-", ".", "/"}

FileNames == SeqsUpTo(NameAlphabet, MaxNameLen) \cup {csv_files[k] : k \in 1..Len(csv_files)}

InitName ==
    /\ NameIdle
    /\ CleanIdle
    /\ RunIdle

\* lines 107-108 for an arbitrary file name, whatever was derived before
DeriveTableName ==
    /\ \E f \in FileNames :
          /\ csv_file' = f
          /\ table_name' = TableName(f)
    /\ UNCHANGED <<cleanVars, runVars>>

NextName == DeriveTableName

SpecName == InitName /\ [][NextName]_vars

----------------------------------------------------------------------------
(* The script: connect, load every source, list, query, close.             *)

Memory == ":memory:"

\* args.db: the default, or a path to a database file
DbArgs == {Memory, "northwind.db"}

\* The run is followed over the first NumSources sources of csv_files.
Sources == SubSeq(csv_files, 1, NumSources)

SourceTables == {TableId(TableName(Sources[s])) : s \in 1..NumSources}

\* What a database holds when it is opened: nothing in memory, any few of the
\* tables of an earlier run in a file.
InitialTables(path) ==
    IF path = Memory THEN {{}}
    ELSE {T \in SUBSET SourceTables : Cardinality(T) <= MaxPreexisting}

Init ==
    /\ pc = "connect"
    /\ db_path \in DbArgs
    /\ con = "none"
    /\ connect_failed = FALSE
    /\ preexisting = {}
    /\ db_tables = {}
    /\ pos = 0
    /\ attempted = <<>>
    /\ outcome = [s \in 1..NumSources |-> "none"]
    /\ temp_files = {}
    /\ NameIdle
    /\ CleanIdle

\* lines 19-20: duckdb.connect(db_path) succeeds
Connect ==
    /\ pc = "connect"
    /\ con' = db_path
    /\ \E held \in InitialTables(db_path) :
          /\ preexisting' = held
          /\ db_tables' = held
    /\ pc' = "loop"
    /\ UNCHANGED <<db_path, connect_failed, pos, attempted, outcome, temp_files,
                   nameVars, cleanVars>>

\* The connect failure ending the run instead of falling back.
ConnectFailureAborts ==
    /\ pc = "connect"
    /\ db_path # Memory
    /\ connect_failed' = TRUE
    /\ pc' = "done"
    /\ UNCHANGED <<db_path, con, preexisting, db_tables, pos, attempted, outcome,
                   temp_files, nameVars, cleanVars>>

\* lines 21-25: the connect to a file raises; connect to memory instead
ConnectFallback ==
    /\ pc = "connect"
    /\ db_path # Memory
    /\ connect_failed' = TRUE
    /\ db_path' = Memory
    /\ con' = Memory
    /\ preexisting' = {}
    /\ db_tables' = {}
    /\ pc' = "loop"
    /\ UNCHANGED <<pos, attempted, outcome, temp_files, nameVars, cleanVars>>

\* lines 106-110: the next csv_file; create_table_from_csv is called
NextSource ==
    /\ pc = "loop"
    /\ pos < NumSources
    /\ pos' = pos + 1
    /\ csv_file' = csv_files[pos + 1]
    /\ table_name' = TableName(csv_files[pos + 1])
    /\ attempted' = Append(attempted, csv_files[pos + 1])
    /\ pc' = "clean"
    /\ UNCHANGED <<db_path, con, connect_failed, preexisting, db_tables, outcome,
                   temp_files, cleanVars>>

\* The except clause of lines 102-103: log, return to the loop.
Caught(how) ==
    /\ outcome' = [outcome EXCEPT ![pos] = how]
    /\ pc' = "loop"

\* line 54: requests.get raises
FetchFails ==
    /\ pc = "clean"
    /\ Caught("clean_failed")
    /\ UNCHANGED <<db_path, con, connect_failed, preexisting, db_tables, pos,
                   attempted, temp_files, nameVars, cleanVars>>

\* line 56: the response has no line, next(csv_reader) raises StopIteration
HeaderMissingInRun ==
    /\ pc = "clean"
    /\ Caught("clean_failed")
    /\ UNCHANGED <<db_path, con, connect_failed, preexisting, db_tables, pos,
                   attempted, temp_files, nameVars, cleanVars>>

\* lines 73-75: the temporary file is created, writing to it raises
WriteFails ==
    /\ pc = "clean"
    /\ temp_files' = temp_files \cup {pos}
    /\ Caught("write_failed")
    /\ UNCHANGED <<db_path, con, connect_failed, preexisting, db_tables, pos,
                   attempted, nameVars, cleanVars>>

\* lines 54-78, 91: clean_csv returns the path of the temporary file
CleanSucceeds ==
    /\ pc = "clean"
    /\ temp_files' = temp_files \cup {pos}
    /\ pc' = "execute"
    /\ UNCHANGED <<db_path, con, connect_failed, preexisting, db_tables, pos,
                   attempted, outcome, nameVars, cleanVars>>

\* lines 94-99: CREATE OR REPLACE TABLE succeeds
ExecuteSucceeds ==
    /\ pc = "execute"
    /\ db_tables' = db_tables \cup {TableId(table_name)}
    /\ pc' = "commit"
    /\ UNCHANGED <<db_path, con, connect_failed, preexisting, pos, attempted,
                   outcome, temp_files, nameVars, cleanVars>>

\* The failed statement ending the run instead of being logged.
ExecuteFailureHalts ==
    /\ pc = "execute"
    /\ outcome' = [outcome EXCEPT ![pos] = "execute_failed"]
    /\ pc' = "halted"
    /\ UNCHANGED <<db_path, con, connect_failed, preexisting, db_tables, pos,
                   attempted, temp_files, nameVars, cleanVars>>

\* The failed statement with the temporary file removed by the handler.
ExecuteFailureCleansUp ==
    /\ pc = "execute"
    /\ temp_files' = temp_files \ {pos}
    /\ Caught("execute_failed")
    /\ UNCHANGED <<db_path, con, connect_failed, preexisting, db_tables, pos,
                   attempted, nameVars, cleanVars>>

\* The failed statement with the table of the source dropped by the handler.
ExecuteFailureDropsTable ==
    /\ pc = "execute"
    /\ db_tables' = db_tables \ {TableId(table_name)}
    /\ Caught("execute_failed")
    /\ UNCHANGED <<db_path, con, connect_failed, preexisting, pos, attempted,
                   temp_files, nameVars, cleanVars>>

\* lines 94-97, 102-103: the statement raises; the database is as before it
ExecuteFails ==
    /\ pc = "execute"
    /\ Caught("execute_failed")
    /\ UNCHANGED <<db_path, con, connect_failed, preexisting, db_tables, pos,
                   attempted, temp_files, nameVars, cleanVars>>

\* line 100: con.commit() succeeds
CommitSucceeds ==
    /\ pc = "commit"
    /\ pc' = "remove"
    /\ UNCHANGED <<db_path, con, connect_failed, preexisting, db_tables, pos,
                   attempted, outcome, temp_files, nameVars, cleanVars>>

\* lines 100, 102-103: con.commit() raises; the statement's table stays if
\* the statement had committed on its own, and is as before the statement if
\* it had not.
CommitFails ==
    /\ pc = "commit"
    /\ \E kept \in BOOLEAN :
          db_tables' = IF kept \/ TableId(table_name) \in preexisting
                       THEN db_tables
                       ELSE db_tables \ {TableId(table_name)}
    /\ Caught("commit_failed")
    /\ UNCHANGED <<db_path, con, connect_failed, preexisting, pos, attempted,
                   temp_files, nameVars, cleanVars>>

\* line 101: os.remove(temp_file_path); the call returns
RemoveTempFile ==
    /\ pc = "remove"
    /\ temp_files' = temp_files \ {pos}
    /\ outcome' = [outcome EXCEPT ![pos] = "ok"]
    /\ pc' = "loop"
    /\ UNCHANGED <<db_path, con, connect_failed, preexisting, db_tables, pos,
                   attempted, nameVars, cleanVars>>

\* lines 112-117: csv_files is exhausted; list the nw_ tables
ListTables ==
    /\ pc = "loop"
    /\ pos = NumSources
    /\ pc' = "example"
    /\ UNCHANGED <<db_path, con, connect_failed, preexisting, db_tables, pos,
                   attempted, outcome, temp_files, nameVars, cleanVars>>

Customers == <<"c", "u", "s", "t", "o", "m", "e", "r", "s">>

\* lines 120-124: the example query on nw_customers returns
ExampleQuery ==
    /\ pc = "example"
    /\ TableId(Customers) \in db_tables
    /\ pc' = "close"
    /\ UNCHANGED <<db_path, con, connect_failed, preexisting, db_tables, pos,
                   attempted, outcome, temp_files, nameVars, cleanVars>>

\* lines 121-126: the example query raises, which is logged
ExampleQueryFails ==
    /\ pc = "example"
    /\ pc' = "close"
    /\ UNCHANGED <<db_path, con, connect_failed, preexisting, db_tables, pos,
                   attempted, outcome, temp_files, nameVars, cleanVars>>

\* line 129: con.close()
Close ==
    /\ pc = "close"
    /\ pc' = "done"
    /\ UNCHANGED <<db_path, con, connect_failed, preexisting, db_tables, pos,
                   attempted, outcome, temp_files, nameVars, cleanVars>>

Next ==
    \/ Connect
    \/ ConnectFallback
    \/ NextSource
    \/ FetchFails
    \/ HeaderMissingInRun
    \/ WriteFails
    \/ CleanSucceeds
    \/ ExecuteSucceeds
    \/ ExecuteFails
    \/ CommitSucceeds
    \/ CommitFails
    \/ RemoveTempFile
    \/ ListTables
    \/ ExampleQuery
    \/ ExampleQueryFails
    \/ Close

Spec == Init /\ [][Next]_vars

\* The script is one thread that runs each statement as soon as the previous
\* one returns: whenever a step is possible, a step is taken.
FairSpec == Spec /\ WF_vars(Next)

----------------------------------------------------------------------------
(* Properties of clean_csv, checked under SpecClean.                       *)

InLoop == cpc \in {"rows", "written"}

\* The j-th data row as read and as emitted.
RawRow(j) == text_rows[j + 1]
OutRow(j) == cleaned_rows[j + 1]

\* out is raw with every comma replaced by the placeholder.
CommaReplaced(out, raw) ==
    /\ Len(out) = Len(raw)
    /\ \A k \in 1..Len(raw) :
          out[k] = IF raw[k] = Comma THEN replace_char[1] ELSE raw[k]

HasComma(field) == \E k \in 1..Len(field) : field[k] = Comma

\* fields[from..] written one after the other with the placeholder between.
RECURSIVE PlaceholderJoined(_, _)
PlaceholderJoined(fields, from) ==
    IF from >= Len(fields) THEN fields[from]
    ELSE fields[from] \o replace_char \o PlaceholderJoined(fields, from + 1)

\* C1 (as claimed): under a header of N >= 1 names every emitted data row,
\* whatever the length of the raw row, has exactly N fields.
C1_EveryRowHasHeaderLength ==
    (InLoop /\ expected_cols >= 1) =>
        \A j \in 1..nread : Len(OutRow(j)) = expected_cols

C3_ShortOrEqualRowKeepsShape ==
    InLoop =>
        \A j \in 1..nread :
            Len(RawRow(j)) <= expected_cols =>
                /\ Len(OutRow(j)) = Len(RawRow(j))
                /\ \A f \in 1..Len(RawRow(j)) :
                      CommaReplaced(OutRow(j)[f], RawRow(j)[f])
                /\ ( /\ Len(RawRow(j)) = expected_cols
                     /\ \A f \in 1..Len(RawRow(j)) : ~HasComma(RawRow(j)[f]) )
                   => OutRow(j) = RawRow(j)

C3_Witness ==
    /\ cpc = "written"
    /\ nread >= 1
    /\ expected_cols = 2
    /\ Len(RawRow(1)) = 1
    /\ HasComma(RawRow(1)[1])
    /\ Len(OutRow(1)) = 1

\* C4 (as claimed): under a non-empty header no field of any emitted data row
\* holds a comma, the merged last field of a long row included.
C4_NoCommaInAnyField ==
    (InLoop /\ expected_cols >= 1) =>
        \A j \in 1..nread :
            \A f \in 1..Len(OutRow(j)) : ~HasComma(OutRow(j)[f])

\* A row's text with field boundaries and commas both read as the placeholder.
Flattened(row) == Replace(Join(replace_char, row), Comma, replace_char)

\* C5: after a non-empty header no row is skipped or rejected: the output is
\* the header unchanged followed by one row per raw row in the input's order,
\* and the only failure of the cleaning is a response without a header line.
C5_OneOutputRowPerRawRow ==
    /\ cpc = "failed" => text_rows = <<>>
    /\ (InLoop /\ expected_cols >= 1) =>
          /\ Len(cleaned_rows) = nread + 1
          /\ cleaned_rows[1] = text_rows[1]
          /\ \A j \in 1..nread : Flattened(OutRow(j)) = Flattened(RawRow(j))
    /\ (cpc = "written" /\ expected_cols >= 1) =>
          /\ written = cleaned_rows
          /\ Len(written) = Len(text_rows)

C5_Witness ==
    /\ cpc = "written"
    /\ expected_cols = 2
    /\ HasComma(header[1])
    /\ nread = 2
    /\ Len(RawRow(1)) = 3
    /\ Len(RawRow(2)) = 1
    /\ Len(written) = 3

----------------------------------------------------------------------------
(* Properties of the run, checked under Spec and FairSpec.                 *)

IsPrefix(a, b) == Len(a) <= Len(b) /\ SubSeq(b, 1, Len(a)) = a

\* The table of the s-th source.
SourceTable(s) == TableId(TableName(Sources[s]))

\* C6: a failure in one source never halts the run: the sources are attempted
\* once each in list order whatever failed before, and the run reaches the
\* close of the connection.
C6_EverySourceAttemptedAndRunCompletes ==
    /\ [](IsPrefix(attempted, Sources))
    /\ <>(pc = "done" /\ attempted = Sources)

C6_Witness ==
    /\ pc = "done"
    /\ attempted = Sources
    /\ outcome[1] = "clean_failed"
    /\ outcome[2] = "execute_failed"
    /\ outcome[3] = "ok"

\* The failures of the fetch, of the clean and of the create-table statement.
LoadFailures == {"clean_failed", "write_failed", "execute_failed"}

C8_FallbackLoadsEverySource ==
    (connect_failed /\ pc = "done") =>
        /\ con = Memory
        /\ db_path = Memory
        /\ attempted = Sources
        /\ \A s \in 1..NumSources :
              outcome[s] = "ok" => SourceTable(s) \in db_tables

C8_Witness ==
    /\ connect_failed
    /\ pc = "done"
    /\ con = Memory
    /\ \A s \in 1..NumSources : outcome[s] = "ok" /\ SourceTable(s) \in db_tables

\* C10: once create_table_from_csv has returned, the temporary file that
\* clean_csv created is gone exactly if the statement and the commit both
\* succeeded; left behind by a failure it stays for the rest of the run.
C10_TempFileRemovedOnlyOnSuccess ==
    \A s \in 1..NumSources :
        outcome[s] \in {"ok", "write_failed", "execute_failed", "commit_failed"} =>
            (s \notin temp_files <=> outcome[s] = "ok")

C10_Witness ==
    /\ pc = "done"
    /\ outcome[1] = "execute_failed" /\ 1 \in temp_files
    /\ outcome[2] = "commit_failed" /\ 2 \in temp_files
    /\ outcome[3] = "ok" /\ 3 \notin temp_files

----------------------------------------------------------------------------
(* Property of the table name, checked under SpecName.                     *)

\* The dot that starts the extension of file: the last dot of the last path
\* component, provided the component has a character other than a dot
\* before it.
ExtensionDots(file) ==
    {d \in 1..Len(file) :
        /\ file[d] = "."
        /\ \A k \in (d + 1)..Len(file) : file[k] \notin {".", "/"}
        /\ \E k \in 1..(d - 1) :
              /\ file[k] # "."
              /\ \A m \in k..(d - 1) : file[m] # "/"}

\* C9: the table name is a function of the file name alone: the file name
\* without its extension and with every hyphen turned into an underscore,
\* whatever was derived before (order-details.csv gives order_details).
C9_TableNameDerivation ==
    LET dots == ExtensionDots(csv_file)
        stem == IF dots = {} THEN Len(csv_file) ELSE (CHOOSE d \in dots : TRUE) - 1
    IN  /\ Len(table_name) = stem
        /\ \A k \in 1..stem :
              table_name[k] = IF csv_file[k] = "-" THEN "_" ELSE csv_file[k]
        /\ csv_file = csv_files[4] =>
              table_name = <<"o", "r", "d", "e", "r", "_",
                             "d", "e", "t", "a", "i", "l", "s">>

C9_Witness ==
    /\ csv_file = csv_files[4]
    /\ table_name = <<"o", "r", "d", "e", "r", "_", "d", "e", "t", "a", "i", "l", "s">>

====
